---------------------------- MODULE Spec2Model ----------------------------
(***************************************************************************)
(* Model of the comment-preserving formatters of .github/scripts:          *)
(*   format_jsonc.py  (split_content_and_comment, extract_comments,        *)
(*                     format_jsonc_file, main)                            *)
(*   format_yaml.py   (compress_comments, strip_trailing_whitespace,       *)
(*                     format_file, the __main__ loop)                     *)
(* Text is a sequence of one-character strings; a file is one such         *)
(* sequence, with "\n" between its lines.                                   *)
(***************************************************************************)
EXTENDS Integers, Sequences, FiniteSets, Bags, TLC

\* ------------------------------------------------------------------------
\* Characters and Python's str helpers
\* ------------------------------------------------------------------------

Q  == "\""
BS == "\\"
NL == "\n"
SP == " "

\* str.isspace() restricted to the characters of the model
IsSpace(ch) == ch \in {SP, NL}

RECURSIVE lstrip(_)
lstrip(s) ==
    IF s # <<>> /\ IsSpace(Head(s)) THEN lstrip(Tail(s)) ELSE s

RECURSIVE rstrip(_)
rstrip(s) ==
    IF s # <<>> /\ IsSpace(s[Len(s)]) THEN rstrip(SubSeq(s, 1, Len(s) - 1)) ELSE s

strip(s) == lstrip(rstrip(s))

startswith(s, p) == Len(s) >= Len(p) /\ SubSeq(s, 1, Len(p)) = p

endswith(s, p) == Len(s) >= Len(p) /\ SubSeq(s, Len(s) - Len(p) + 1, Len(s)) = p

\* ch in s
Contains(s, ch) == \E i \in 1..Len(s) : s[i] = ch

\* s.index(ch), 1-based; only used where ch occurs
IndexOf(s, ch) == CHOOSE i \in 1..Len(s) : s[i] = ch /\ \A j \in 1..(i - 1) : s[j] # ch

RECURSIVE Concat(_)
Concat(ss) == IF ss = <<>> THEN <<>> ELSE Head(ss) \o Concat(Tail(ss))

\* sep.join(parts)
RECURSIVE join(_, _)
join(sep, parts) ==
    IF parts = <<>> THEN <<>>
    ELSE IF Len(parts) = 1 THEN parts[1]
    ELSE parts[1] \o sep \o join(sep, Tail(parts))

\* str.splitlines(): "\n" is the only line boundary of the model's texts
RECURSIVE splitlinesFrom(_, _, _)
splitlinesFrom(text, i, cur) ==
    IF i > Len(text) THEN (IF cur = <<>> THEN <<>> ELSE <<cur>>)
    ELSE IF text[i] = NL THEN <<cur>> \o splitlinesFrom(text, i + 1, <<>>)
    ELSE splitlinesFrom(text, i + 1, Append(cur, text[i]))

splitlines(text) == splitlinesFrom(text, 1, <<>>)

\* ------------------------------------------------------------------------
\* format_jsonc.py: split_content_and_comment
\* ------------------------------------------------------------------------

\* Python's None for the comment part.  A comment that was found starts with
\* "//" and is never empty, so the empty text stands for None.
None == <<>>

\* The mutated scanner: a quote toggles in_string whether escaped or not.
RECURSIVE scan_quote_ignores_escape(_, _, _, _)
scan_quote_ignores_escape(line, i, in_string, escaped) ==
    IF i > Len(line) THEN [content |-> rstrip(line), comment |-> None]
    ELSE LET ch == line[i] IN
         IF ch = Q
         THEN scan_quote_ignores_escape(line, i + 1, ~in_string, FALSE)
         ELSE IF ch = BS /\ ~escaped
         THEN scan_quote_ignores_escape(line, i + 1, in_string, TRUE)
         ELSE IF ~in_string /\ ch = "/" /\ i + 1 <= Len(line) /\ line[i + 1] = "/"
         THEN [content |-> rstrip(SubSeq(line, 1, i - 1)),
               comment |-> strip(SubSeq(line, i, Len(line)))]
         ELSE scan_quote_ignores_escape(line, i + 1, in_string, FALSE)

\* The for loop of split_content_and_comment from index i (1-based) on.
RECURSIVE scan_loop(_, _, _, _)
scan_loop(line, i, in_string, escaped) ==
    IF i > Len(line) THEN [content |-> rstrip(line), comment |-> None]
    ELSE LET ch == line[i] IN
         IF ch = Q /\ ~escaped
         THEN scan_loop(line, i + 1, ~in_string, FALSE)
         ELSE IF ch = BS /\ ~escaped
         THEN scan_loop(line, i + 1, in_string, TRUE)
         ELSE IF ~in_string /\ ch = "/" /\ i + 1 <= Len(line) /\ line[i + 1] = "/"
         THEN [content |-> rstrip(SubSeq(line, 1, i - 1)),
               comment |-> strip(SubSeq(line, i, Len(line)))]
         ELSE scan_loop(line, i + 1, in_string, FALSE)

split_content_and_comment(line) == scan_loop(line, 1, FALSE, FALSE)

\* ------------------------------------------------------------------------
\* format_jsonc.py: KEY_RE = ^\s*"([^"]+)":
\* ------------------------------------------------------------------------

\* KEY_RE.match(s): [matched, key]
KEY_RE(s) ==
    LET t == lstrip(s) IN
    IF t = <<>> \/ Head(t) # Q THEN [matched |-> FALSE, key |-> <<>>]
    ELSE LET r == Tail(t) IN
         IF ~Contains(r, Q) THEN [matched |-> FALSE, key |-> <<>>]
         ELSE LET j == IndexOf(r, Q) IN
              IF j >= 2 /\ j + 1 <= Len(r) /\ r[j + 1] = ":"
              THEN [matched |-> TRUE, key |-> SubSeq(r, 1, j - 1)]
              ELSE [matched |-> FALSE, key |-> <<>>]

\* ------------------------------------------------------------------------
\* format_jsonc.py: extract_comments
\* ------------------------------------------------------------------------

\* ".".join(path_stack + [key])
full_path(path_stack, key) == join(<<".">>, Append(path_stack, key))

\* dict[k] = v
DictSet(d, k, v) == [x \in DOMAIN d \cup {k} |-> IF x = k THEN v ELSE d[x]]

EmptyDict == [x \in {} |-> <<>>]

\* list.pop() guarded by "if path_stack"
PopIfAny(stack) == IF stack = <<>> THEN stack ELSE SubSeq(stack, 1, Len(stack) - 1)

\* One iteration of the for loop of extract_comments on `line`.
extract_step(st, line) ==
    LET sc      == split_content_and_comment(line)
        content == sc.content
        comment == sc.comment
        m       == KEY_RE(content)
    IN
    IF content = <<>> THEN
        IF ~st.in_obj
        THEN [st EXCEPT !.top = Append(@, rstrip(line))]
        ELSE [st EXCEPT !.cur_comments = Append(@, strip(line))]
    ELSE IF startswith(content, <<"{">>) THEN
        [st EXCEPT !.in_obj = TRUE]
    ELSE IF startswith(content, <<"}">>) THEN
        [st EXCEPT !.cur_comments = IF comment # None THEN Append(@, comment) ELSE @,
                   !.path_stack = PopIfAny(@)]
    ELSE IF m.matched THEN
        LET fp == full_path(st.path_stack, m.key) IN
        [st EXCEPT
            !.leading = IF st.cur_comments # <<>>
                        THEN DictSet(@, fp, st.cur_comments) ELSE @,
            !.cur_comments = <<>>,
            !.inline = IF comment # None THEN DictSet(@, fp, comment) ELSE @,
            !.path_stack = IF Contains(content, "{") THEN Append(@, m.key) ELSE @]
    ELSE IF comment # None THEN
        [st EXCEPT !.cur_comments = Append(@, comment)]
    ELSE st

RECURSIVE extract_loop(_, _)
extract_loop(st, lines) ==
    IF lines = <<>> THEN st
    ELSE extract_loop(extract_step(st, Head(lines)), Tail(lines))

\* The state of extract_comments before its loop
extract_start ==
    [top |-> <<>>, leading |-> EmptyDict, inline |-> EmptyDict,
     cur_comments |-> <<>>, path_stack |-> <<>>, in_obj |-> FALSE]

\* Whether the loop body reaches "fp = full_path(key)" on `line`
extract_at_key(line) ==
    LET content == split_content_and_comment(line).content IN
    /\ content # <<>>
    /\ ~startswith(content, <<"{">>)
    /\ ~startswith(content, <<"}">>)
    /\ KEY_RE(content).matched

\* The values of fp the loop of extract_comments computes, in order
RECURSIVE extract_paths(_, _)
extract_paths(st, lines) ==
    IF lines = <<>> THEN <<>>
    ELSE LET line == Head(lines) IN
         (IF extract_at_key(line)
          THEN <<full_path(st.path_stack,
                           KEY_RE(split_content_and_comment(line).content).key)>>
          ELSE <<>>)
         \o extract_paths(extract_step(st, line), Tail(lines))

extract_comments(lines) ==
    LET st0 == [top |-> <<>>, leading |-> EmptyDict, inline |-> EmptyDict,
                cur_comments |-> <<>>, path_stack |-> <<>>, in_obj |-> FALSE]
        st  == extract_loop(st0, lines)
    IN [top |-> st.top, leading |-> st.leading, inline |-> st.inline,
        bottom |-> st.cur_comments]

\* ------------------------------------------------------------------------
\* commentjson.loads: the parser format_jsonc_file calls.  It ignores "//"
\* and "#" comments outside strings and accepts a trailing comma.
\* A value is [t, s, items]: t in {"obj","arr","str","num"}; s the text of a
\* scalar; items the pairs [k, v] of an object or the elements of an array.
\* ------------------------------------------------------------------------

Digits == {"0", "1", "2", "3", "4", "5", "6", "7", "8", "9"}
Puncts == {"{", "}", "[", "]", ",", ":"}

Tok(t, v) == [t |-> t, v |-> v]

\* The decoded characters of a string literal whose opening quote is at i - 1:
\* [ok, s, next], next the index after the closing quote.
RECURSIVE lex_string(_, _, _)
lex_string(text, i, acc) ==
    IF i > Len(text) \/ text[i] = NL THEN [ok |-> FALSE, s |-> acc, next |-> i]
    ELSE IF text[i] = Q THEN [ok |-> TRUE, s |-> acc, next |-> i + 1]
    ELSE IF text[i] = BS THEN
        IF i + 1 <= Len(text) /\ text[i + 1] \in {Q, BS, "/"}
        THEN lex_string(text, i + 2, Append(acc, text[i + 1]))
        ELSE [ok |-> FALSE, s |-> acc, next |-> i]
    ELSE lex_string(text, i + 1, Append(acc, text[i]))

RECURSIVE lex_number(_, _, _)
lex_number(text, i, acc) ==
    IF i <= Len(text) /\ text[i] \in Digits
    THEN lex_number(text, i + 1, Append(acc, text[i]))
    ELSE [s |-> acc, next |-> i]

RECURSIVE skip_line(_, _)
skip_line(text, i) ==
    IF i > Len(text) \/ text[i] = NL THEN i ELSE skip_line(text, i + 1)

\* [ok, toks]
RECURSIVE lex(_, _, _)
lex(text, i, acc) ==
    IF i > Len(text) THEN [ok |-> TRUE, toks |-> acc]
    ELSE LET ch == text[i] IN
         IF IsSpace(ch) THEN lex(text, i + 1, acc)
         ELSE IF ch = "#" \/ (ch = "/" /\ i + 1 <= Len(text) /\ text[i + 1] = "/")
         THEN lex(text, skip_line(text, i), acc)
         ELSE IF ch \in Puncts THEN lex(text, i + 1, Append(acc, Tok(ch, <<>>)))
         ELSE IF ch = Q THEN
             LET r == lex_string(text, i + 1, <<>>) IN
             IF r.ok THEN lex(text, r.next, Append(acc, Tok("str", r.s)))
             ELSE [ok |-> FALSE, toks |-> acc]
         ELSE IF ch \in Digits THEN
             LET r == lex_number(text, i, <<>>) IN
             IF Len(r.s) > 1 /\ r.s[1] = "0" THEN [ok |-> FALSE, toks |-> acc]
             ELSE lex(text, r.next, Append(acc, Tok("num", r.s)))
         ELSE [ok |-> FALSE, toks |-> acc]

Scalar(t, s) == [t |-> t, s |-> s, items |-> <<>>]
Container(t, items) == [t |-> t, s |-> <<>>, items |-> items]

\* dict[k] = v while decoding: a repeated key keeps its first position and
\* takes the last value.
PairSet(items, k, v) ==
    IF \E j \in 1..Len(items) : items[j].k = k
    THEN [j \in 1..Len(items) |-> IF items[j].k = k THEN [k |-> k, v |-> v] ELSE items[j]]
    ELSE Append(items, [k |-> k, v |-> v])

TokIs(toks, i, t) == i <= Len(toks) /\ toks[i].t = t

Fail(i) == [ok |-> FALSE, val |-> Scalar("num", <<>>), next |-> i]

RECURSIVE parse_value(_, _)
RECURSIVE parse_pairs(_, _, _)
RECURSIVE parse_elems(_, _, _)

\* pair ("," pair)* TRAILING_COMMA? "}" with toks[i] the start of a pair
parse_pairs(toks, i, acc) ==
    IF ~(TokIs(toks, i, "str") /\ TokIs(toks, i + 1, ":")) THEN Fail(i)
    ELSE LET r == parse_value(toks, i + 2) IN
         IF ~r.ok THEN r
         ELSE LET acc2 == PairSet(acc, toks[i].v, r.val) IN
              IF TokIs(toks, r.next, "}")
              THEN [ok |-> TRUE, val |-> Container("obj", acc2), next |-> r.next + 1]
              ELSE IF TokIs(toks, r.next, ",") THEN
                  IF TokIs(toks, r.next + 1, "}")
                  THEN [ok |-> TRUE, val |-> Container("obj", acc2), next |-> r.next + 2]
                  ELSE parse_pairs(toks, r.next + 1, acc2)
              ELSE Fail(r.next)

parse_elems(toks, i, acc) ==
    LET r == parse_value(toks, i) IN
    IF ~r.ok THEN r
    ELSE LET acc2 == Append(acc, r.val) IN
         IF TokIs(toks, r.next, "]")
         THEN [ok |-> TRUE, val |-> Container("arr", acc2), next |-> r.next + 1]
         ELSE IF TokIs(toks, r.next, ",") THEN
             IF TokIs(toks, r.next + 1, "]")
             THEN [ok |-> TRUE, val |-> Container("arr", acc2), next |-> r.next + 2]
             ELSE parse_elems(toks, r.next + 1, acc2)
         ELSE Fail(r.next)

parse_value(toks, i) ==
    IF i > Len(toks) THEN Fail(i)
    ELSE IF toks[i].t \in {"str", "num"}
    THEN [ok |-> TRUE, val |-> Scalar(toks[i].t, toks[i].v), next |-> i + 1]
    ELSE IF toks[i].t = "{" THEN
        IF TokIs(toks, i + 1, "}")
        THEN [ok |-> TRUE, val |-> Container("obj", <<>>), next |-> i + 2]
        ELSE IF TokIs(toks, i + 1, ",") /\ TokIs(toks, i + 2, "}")
        THEN [ok |-> TRUE, val |-> Container("obj", <<>>), next |-> i + 3]
        ELSE parse_pairs(toks, i + 1, <<>>)
    ELSE IF toks[i].t = "[" THEN
        IF TokIs(toks, i + 1, "]")
        THEN [ok |-> TRUE, val |-> Container("arr", <<>>), next |-> i + 2]
        ELSE IF TokIs(toks, i + 1, ",") /\ TokIs(toks, i + 2, "]")
        THEN [ok |-> TRUE, val |-> Container("arr", <<>>), next |-> i + 3]
        ELSE parse_elems(toks, i + 1, <<>>)
    ELSE Fail(i)

\* commentjson.loads(content): [ok, val]; ok = FALSE is the raised exception
loads(content) ==
    LET lx == lex(content, 1, <<>>) IN
    IF ~lx.ok THEN [ok |-> FALSE, val |-> Scalar("num", <<>>)]
    ELSE LET r == parse_value(lx.toks, 1) IN
         IF r.ok /\ r.next = Len(lx.toks) + 1
         THEN [ok |-> TRUE, val |-> r.val]
         ELSE [ok |-> FALSE, val |-> Scalar("num", <<>>)]

\* Python truth value of the decoded data ("if not data")
Truthy(val) ==
    CASE val.t \in {"obj", "arr"} -> val.items # <<>>
      [] val.t = "str" -> val.s # <<>>
      [] OTHER -> val.s # <<"0">>

\* ------------------------------------------------------------------------
\* commentjson.dumps(data, indent=2).splitlines()
\* ------------------------------------------------------------------------

RECURSIVE encode_chars(_)
encode_chars(s) ==
    IF s = <<>> THEN <<>>
    ELSE (IF Head(s) \in {Q, BS} THEN <<BS, Head(s)>> ELSE <<Head(s)>>)
         \o encode_chars(Tail(s))

encode_string(s) == <<Q>> \o encode_chars(s) \o <<Q>>

Spaces(n) == [j \in 1..n |-> SP]

\* first \o lines[1], then the other lines
Prefixed(first, lines) == <<first \o Head(lines)>> \o Tail(lines)

\* "," after the last line
WithComma(lines) ==
    SubSeq(lines, 1, Len(lines) - 1) \o <<lines[Len(lines)] \o <<",">>>>

RECURSIVE dump_lines(_, _)
RECURSIVE dump_items(_, _, _, _)

\* The lines of the items of a container at nesting `level`, each item
\* indented by 2 * level and all but the last followed by ","
dump_items(items, isObj, level, j) ==
    IF j > Len(items) THEN <<>>
    ELSE LET v     == IF isObj THEN items[j].v ELSE items[j]
             lead  == Spaces(2 * level)
                      \o (IF isObj THEN encode_string(items[j].k) \o <<":", SP>> ELSE <<>>)
             own   == Prefixed(lead, dump_lines(v, level))
         IN (IF j < Len(items) THEN WithComma(own) ELSE own)
            \o dump_items(items, isObj, level, j + 1)

\* The lines of a value whose first line starts at the current column and
\* whose other lines are indented for a value nested at `level`
dump_lines(val, level) ==
    CASE val.t = "str" -> <<encode_string(val.s)>>
      [] val.t = "num" -> <<val.s>>
      [] val.t = "obj" ->
            IF val.items = <<>> THEN << <<"{", "}">> >>
            ELSE << <<"{">> >> \o dump_items(val.items, TRUE, level + 1, 1)
                 \o << Spaces(2 * level) \o <<"}">> >>
      [] OTHER ->
            IF val.items = <<>> THEN << <<"[", "]">> >>
            ELSE << <<"[">> >> \o dump_items(val.items, FALSE, level + 1, 1)
                 \o << Spaces(2 * level) \o <<"]">> >>

dumps(data) == dump_lines(data, 0)

\* ------------------------------------------------------------------------
\* format_jsonc.py: format_jsonc_file
\* ------------------------------------------------------------------------

\* The mutated comprehension: the lines keep their leading white space.
RECURSIVE StrippedNonBlank_rstrip_only(_)
StrippedNonBlank_rstrip_only(lines) ==
    IF lines = <<>> THEN <<>>
    ELSE (IF strip(Head(lines)) # <<>> THEN <<rstrip(Head(lines))>> ELSE <<>>)
         \o StrippedNonBlank_rstrip_only(Tail(lines))

\* [ln.lstrip().rstrip() for ln in lines if ln.strip()]
RECURSIVE StrippedNonBlank(_)
StrippedNonBlank(lines) ==
    IF lines = <<>> THEN <<>>
    ELSE (IF strip(Head(lines)) # <<>> THEN <<strip(Head(lines))>> ELSE <<>>)
         \o StrippedNonBlank(Tail(lines))

\* The filter left out: every line is kept.
NonBlank_keeps_all(lines) == lines

\* [ln for ln in out_lines if ln.strip()]
RECURSIVE NonBlank(_)
NonBlank(lines) ==
    IF lines = <<>> THEN <<>>
    ELSE (IF strip(Head(lines)) # <<>> THEN <<Head(lines)>> ELSE <<>>)
         \o NonBlank(Tail(lines))

\* path.write_text("\n".join(out_lines) + "\n")
written_text(out_lines) == join(<<NL>>, out_lines) \o <<NL>>

\* lines = [ln + "\n" for ln in path.read_text().splitlines()]
read_lines(text) ==
    LET ls == splitlines(text) IN [j \in 1..Len(ls) |-> ls[j] \o <<NL>>]

\* non_comment_lines of format_jsonc_file is empty
no_non_comment_lines(lines) ==
    \A j \in 1..Len(lines) :
        strip(lines[j]) # <<>> => startswith(strip(lines[j]), <<"/", "/">>)

\* The comment lines of leading[fp], re-indented
RECURSIVE indented(_, _)
indented(indent, cs) ==
    IF cs = <<>> THEN <<>>
    ELSE <<indent \o strip(Head(cs))>> \o indented(indent, Tail(cs))

\* One iteration of the reinjection loop: rs = [out_lines, stack]
reinject_step(rs, line, leading, inline) ==
    LET stripped == strip(line)
        m        == KEY_RE(line)
    IN
    IF startswith(stripped, <<"}">>) THEN
        [out_lines |-> Append(rs.out_lines, line), stack |-> PopIfAny(rs.stack)]
    ELSE IF m.matched THEN
        LET fp     == join(<<".">>, Append(rs.stack, m.key))
            indent == SubSeq(line, 1, IndexOf(line, Q) - 1)
            lead   == IF fp \in DOMAIN leading THEN indented(indent, leading[fp]) ELSE <<>>
            own    == IF fp \in DOMAIN inline THEN line \o <<SP>> \o inline[fp] ELSE line
        IN [out_lines |-> rs.out_lines \o lead \o <<own>>,
            stack |-> IF endswith(strip(line), <<"{">>) THEN Append(rs.stack, m.key)
                      ELSE rs.stack]
    ELSE [out_lines |-> Append(rs.out_lines, line), stack |-> rs.stack]

\* Whether the reinjection loop reaches "fp = ..." on `line`
reinject_at_key(line) ==
    ~startswith(strip(line), <<"}">>) /\ KEY_RE(line).matched

\* The values of fp the reinjection loop computes on formatted[1:-1], in
\* order
RECURSIVE reinject_paths(_, _)
reinject_paths(stack, lines) ==
    IF lines = <<>> THEN <<>>
    ELSE LET line == Head(lines)
             rs   == reinject_step([out_lines |-> <<>>, stack |-> stack], line,
                                   EmptyDict, EmptyDict)
         IN (IF reinject_at_key(line)
             THEN <<join(<<".">>, Append(stack, KEY_RE(line).key))>>
             ELSE <<>>)
            \o reinject_paths(rs.stack, Tail(lines))

RECURSIVE reinject_loop(_, _, _, _)
reinject_loop(rs, lines, leading, inline) ==
    IF lines = <<>> THEN rs
    ELSE reinject_loop(reinject_step(rs, Head(lines), leading, inline),
                       Tail(lines), leading, inline)

\* Lines 143-180: the canonical lines with the comments spliced back in
reinject(formatted, ci) ==
    LET opening == formatted[1]
        closing == formatted[Len(formatted)]
        rs == reinject_loop([out_lines |-> ci.top \o <<opening>>, stack |-> <<>>],
                            SubSeq(formatted, 2, Len(formatted) - 1),
                            ci.leading, ci.inline)
    IN NonBlank(rs.out_lines
                \o (IF Len(formatted) > 1 THEN <<closing>> ELSE <<>>)
                \o ci.bottom)

\* The mutated function: the trimmed lines are written before the parser is
\* called, so a rejected file is left rewritten.
format_jsonc_file_writes_first(text) ==
    LET lines   == read_lines(text)
        ci      == extract_comments(lines)
        trimmed == written_text(StrippedNonBlank(lines))
    IN
    IF no_non_comment_lines(lines)
    THEN [raised |-> FALSE, parsed |-> FALSE, text |-> trimmed]
    ELSE LET r == loads(text) IN
         IF ~r.ok
         THEN [raised |-> TRUE, parsed |-> TRUE, text |-> trimmed]
         ELSE IF ~Truthy(r.val)
         THEN [raised |-> FALSE, parsed |-> TRUE, text |-> trimmed]
         ELSE [raised |-> FALSE, parsed |-> TRUE,
               text |-> written_text(reinject(dumps(r.val), ci))]

\* format_jsonc_file on a file holding `text`:
\*   raised: the call raised; parsed: commentjson.loads was called;
\*   text: what the file holds afterwards
format_jsonc_file(text) ==
    LET lines == read_lines(text)
        ci    == extract_comments(lines)
    IN
    IF no_non_comment_lines(lines)
    THEN [raised |-> FALSE, parsed |-> FALSE,
          text |-> written_text(StrippedNonBlank(lines))]
    ELSE LET r == loads(text) IN
         IF ~r.ok
         THEN [raised |-> TRUE, parsed |-> TRUE, text |-> text]
         ELSE IF ~Truthy(r.val)
         THEN [raised |-> FALSE, parsed |-> TRUE,
               text |-> written_text(StrippedNonBlank(lines))]
         ELSE [raised |-> FALSE, parsed |-> TRUE,
               text |-> written_text(reinject(dumps(r.val), ci))]

\* ------------------------------------------------------------------------
\* The input files of the model: documents of bounded size, laid out on
\* lines, with comments and blank lines placed in them
\* ------------------------------------------------------------------------

\* Keys of all objects of a document, nested ones included
MaxKeys == 2
\* Comments and blank lines placed in one document
MaxDecor == 2
\* Lines of a file that holds comments and blank lines only
MaxPureLines == 3

\* The j-th member of every object is named KeyNames[j]
KeyNames == << <<"a">>, <<"b">>, <<"c">>, <<"d">>, <<"e">> >>

ScalarVals == {Scalar("num", <<"1">>), Scalar("str", <<"/", "/">>)}

RECURSIVE ObjItems(_, _, _)
RECURSIVE ValsFor(_, _)

\* The values that use at most b keys and nest at most d containers: a
\* scalar, an object, or an array of one number or of one object
ValsFor(b, d) ==
    ScalarVals
    \cup (IF d >= 1
          THEN {Container("obj", it) : it \in ObjItems(b, d - 1, 1)}
               \cup {Container("arr", <<Scalar("num", <<"1">>)>>)}
               \cup {Container("arr", <<Container("obj", it)>>) :
                        it \in ObjItems(b, d - 1, 1) \ {<<>>}}
          ELSE {})

RECURSIVE NKeys(_)
NKeys(val) ==
    CASE val.t \in {"str", "num"} -> 0
      [] val.t = "arr" -> NKeys(val.items[1])
      [] OTHER -> IF val.items = <<>> THEN 0
                  ELSE 1 + NKeys(Head(val.items).v)
                       + NKeys(Container("obj", Tail(val.items)))

\* The member lists of an object from member `pos` on
ObjItems(b, d, pos) ==
    {<<>>}
    \cup (IF b >= 1
          THEN UNION {
                 {<<[k |-> KeyNames[pos], v |-> v]>> \o rest :
                     rest \in ObjItems(b - 1 - NKeys(v), d, pos + 1)} :
                 v \in ValsFor(b - 1, d)}
          ELSE {})

\* The documents of at most n keys
Trees(n) == {Container("obj", it) : it \in ObjItems(n, n, 1)}

\* A line that ends with an empty container, "{}" or "[]" with or without a
\* comma, as two lines: one that opens the container and one that closes it
RECURSIVE SpreadEmpty(_)
SpreadEmpty(ls) ==
    IF ls = <<>> THEN <<>>
    ELSE LET l    == Head(ls)
             c    == IF endswith(l, <<",">>) THEN <<",">> ELSE <<>>
             body == SubSeq(l, 1, Len(l) - Len(c))
             n    == Len(body)
         IN (IF endswith(body, <<"{", "}">>) \/ endswith(body, <<"[", "]">>)
             THEN <<SubSeq(body, 1, n - 1), <<body[n]>> \o c>>
             ELSE <<l>>)
            \o SpreadEmpty(Tail(ls))

\* The lines of a document without its comments: as the serializer lays them
\* out ("canon"); without indentation and with the empty containers spread
\* over two lines ("flush"); or cut short before the closing line ("trunc")
Layouts == {"canon", "flush", "trunc"}

Skeleton(tree, layout) ==
    LET ls == dumps(tree) IN
    CASE layout = "canon" -> ls
      [] layout = "flush" -> SpreadEmpty([j \in 1..Len(ls) |-> lstrip(ls[j])])
      [] OTHER -> IF Len(ls) > 1 THEN SubSeq(ls, 1, Len(ls) - 1) ELSE <<<<"{">>>>

\* Two documents of more keys: a key after a nested object that holds a
\* key, and the same inside an object with an array of one object between
DeepTrees ==
    LET one   == Scalar("num", <<"1">>)
        inner == Container("obj", <<[k |-> <<"a">>, v |-> one]>>)
    IN { Container("obj", <<[k |-> <<"a">>, v |-> inner], [k |-> <<"b">>, v |-> one]>>),
         Container("obj",
             <<[k |-> <<"a">>,
                v |-> Container("obj",
                          <<[k |-> <<"a">>, v |-> Container("arr", <<inner>>)],
                            [k |-> <<"b">>, v |-> one]>>)]>>) }

Skeletons(n) == {Skeleton(t, l) : t \in Trees(n) \cup DeepTrees, l \in Layouts}

Digit(j) == IF j <= 9 THEN <<"0", "1", "2", "3", "4", "5", "6", "7", "8", "9">>[j + 1]
            ELSE "x"

\* A decoration places a comment line ("above") or a blank line ("blank")
\* before line j, or a comment at the end of line j ("inline"); line
\* Len(ls) + 1 is the end of the file
Slots(ls) ==
    ({"above", "blank"} \X (1..(Len(ls) + 1))) \cup ({"inline"} \X (1..Len(ls)))

IndentOf(l) == SubSeq(l, 1, Len(l) - Len(lstrip(l)))

RECURSIVE Decorated(_, _, _)
Decorated(ls, D, j) ==
    IF j > Len(ls) + 1 THEN <<>>
    ELSE LET ind == IF j <= Len(ls) THEN IndentOf(ls[j]) ELSE <<>> IN
         (IF <<"blank", j>> \in D THEN << <<>> >> ELSE <<>>)
         \o (IF <<"above", j>> \in D
             THEN << ind \o <<"/", "/", SP, "c", Digit(j)>> >> ELSE <<>>)
         \o (IF j > Len(ls) THEN <<>>
             ELSE IF <<"inline", j>> \in D
             THEN << ls[j] \o <<SP, "/", "/", SP, "i", Digit(j)>> >>
             ELSE << ls[j] >>)
         \o Decorated(ls, D, j + 1)

\* The subsets of S of at most k elements
RECURSIVE SubsetsUpTo(_, _)
SubsetsUpTo(S, k) ==
    IF k = 0 THEN {{}}
    ELSE LET P == SubsetsUpTo(S, k - 1) IN P \cup {p \cup {e} : p \in P, e \in S}

Decorations(ls, k) == SubsetsUpTo(Slots(ls), k)

\* The files of at most n keys with at most k comments and blank lines
StructuredDocs(n, k) ==
    UNION {{written_text(Decorated(ls, D, 1)) : D \in Decorations(ls, k)} :
              ls \in Skeletons(n)}

\* A file of comments and blank lines only, with or without a final newline
PureLines ==
    { <<>>, <<SP>>, <<"/", "/", "a">>, <<SP, SP, "/", "/", SP, "b", SP>> }

RECURSIVE SeqsUpTo(_, _)
SeqsUpTo(S, n) ==
    IF n = 0 THEN {<<>>}
    ELSE LET P == SeqsUpTo(S, n - 1) IN P \cup {Append(p, e) : p \in P, e \in S}

PureDocs(m) ==
    LET LL == SeqsUpTo(PureLines, m) IN
    {join(<<NL>>, ls) : ls \in LL} \cup {written_text(ls) : ls \in LL}

\* ------------------------------------------------------------------------
\* format_jsonc.py: main, run on a command line of paths
\* ------------------------------------------------------------------------

\* Paths on one command line
MaxArgs == 2
\* Times the script is run on the same command line
MaxRuns == 2

Paths == {"p", "q"}

ArgLists == SeqsUpTo(Paths, MaxArgs)

\* A few small files, for command lines of several paths: an object, one
\* cut short, comments only, and the empty file
DriverDocs ==
    LET obj == << <<"{">>, <<Q, "a", Q, ":", SP, "1", SP, "/", "/", SP, "x">>, <<"}">> >>
    IN { written_text(obj), written_text(SubSeq(obj, 1, 2)),
         written_text(<< <<SP, "/", "/", "a">> >>), <<>> }

\* One path on the command line, the file it names drawn from docs
OnePath(docs) ==
    {[argv |-> <<"p">>, files |-> [f \in Paths |-> IF f = "p" THEN d ELSE <<>>]] :
        d \in docs}

DriverInputs ==
    {[argv |-> a, files |-> fs] : a \in ArgLists, fs \in [Paths -> DriverDocs]}

\* ------------------------------------------------------------------------
\* format_yaml.py
\* ------------------------------------------------------------------------

\* The guard of the last branch left out: every blank line is kept.
compress_step_keeps_blanks(compressed, ln) ==
    LET stripped == strip(ln) IN
    IF startswith(stripped, <<"#">>) THEN Append(compressed, stripped)
    ELSE Append(compressed, ln)

\* One iteration of the for loop of compress_comments
compress_step(compressed, ln) ==
    LET stripped == strip(ln) IN
    IF startswith(stripped, <<"#">>) THEN Append(compressed, stripped)
    ELSE IF stripped # <<>> THEN Append(compressed, ln)
    ELSE IF compressed # <<>> /\ strip(compressed[Len(compressed)]) # <<>>
    THEN Append(compressed, ln)
    ELSE compressed

RECURSIVE compress_loop(_, _)
compress_loop(compressed, lines) ==
    IF lines = <<>> THEN compressed
    ELSE compress_loop(compress_step(compressed, Head(lines)), Tail(lines))

\* compress_comments on a file holding `text`: what it writes
compress_comments(text) == written_text(compress_loop(<<>>, splitlines(text)))

\* strip_trailing_whitespace on a file holding `text`: what it writes
strip_trailing_whitespace(text) ==
    LET lines == splitlines(text) IN
    written_text([j \in 1..Len(lines) |-> rstrip(lines[j])])

Letters == {"a", "b", "c", "d", "e", "x"}

\* A line of YAML without its comment: "#" starts one at the start of the
\* line or after white space
RECURSIVE yaml_content(_, _)
yaml_content(l, j) ==
    IF j > Len(l) THEN rstrip(l)
    ELSE IF l[j] = "#" /\ (j = 1 \/ IsSpace(l[j - 1])) THEN rstrip(SubSeq(l, 1, j - 1))
    ELSE yaml_content(l, j + 1)

\* A block mapping entry "key: value" at column 1 with a plain scalar value:
\* [ok, key]
yaml_entry(c) ==
    IF ~Contains(c, ":") THEN [ok |-> FALSE, key |-> <<>>]
    ELSE LET k == IndexOf(c, ":")
             key == SubSeq(c, 1, k - 1)
             val == SubSeq(c, k + 2, Len(c))
         IN [ok |-> /\ key # <<>>
                    /\ \A j \in 1..Len(key) : key[j] \in Letters
                    /\ k + 1 <= Len(c) /\ c[k + 1] = SP
                    /\ val # <<>>
                    /\ \A j \in 1..Len(val) : val[j] \in Letters \cup Digits,
             key |-> key]

\* yaml.load(f) of the round-trip loader on the files of the model, which
\* hold comment lines, blank lines and lines "key: value": [ok, none, keys].
\* It raises (ok = FALSE) on a line that is no such entry and on a repeated
\* key; none says the document is empty and the data is None.
RECURSIVE yaml_load_lines(_, _)
yaml_load_lines(lines, keys) ==
    IF lines = <<>> THEN [ok |-> TRUE, none |-> keys = <<>>, keys |-> keys]
    ELSE LET c == yaml_content(Head(lines), 1)
             e == yaml_entry(c)
         IN IF c = <<>> THEN yaml_load_lines(Tail(lines), keys)
            ELSE IF ~e.ok \/ (\E j \in 1..Len(keys) : keys[j] = e.key)
            THEN [ok |-> FALSE, none |-> FALSE, keys |-> keys]
            ELSE yaml_load_lines(Tail(lines), Append(keys, e.key))

yaml_load(text) == yaml_load_lines(splitlines(text), <<>>)

\* What yaml.dump(None, f) writes with the representer of lines 10-13: the
\* scalar null and the end of the document
yaml_dump_none == <<"n", "u", "l", "l", NL, ".", ".", ".", NL>>

\* file_path.parent == Path(".github/workflows")
YPaths == {"a.yml", ".github/workflows/ci.yml"}

InWorkflows(path) == path = ".github/workflows/ci.yml"

\* format_file on `path` holding `text`: whether it raised, whether it
\* called yaml.dump, and what the file holds afterwards
format_file(path, text) ==
    IF text = <<>> THEN [raised |-> FALSE, dumped |-> FALSE, text |-> text]
    ELSE LET compressed == IF ~InWorkflows(path) THEN compress_comments(text) ELSE text
             data       == yaml_load(compressed)
         IN IF ~data.ok THEN [raised |-> TRUE, dumped |-> FALSE, text |-> compressed]
            ELSE IF ~data.none
            THEN [raised |-> FALSE, dumped |-> FALSE, text |-> compressed]
            ELSE [raised |-> FALSE, dumped |-> TRUE,
                  text |-> strip_trailing_whitespace(yaml_dump_none)]

\* Lines of a YAML file of the model
MaxYamlLines == 3

YamlLines ==
    { <<>>,
      <<"#", SP, "c">>,
      <<SP, SP, "#", SP, "d", SP>>,
      <<"a", ":", SP, "1">>,
      <<"b", ":", SP, "1", SP, "#", SP, "e">>,
      <<"a", ":", SP, "[">> }

YamlDocs ==
    {written_text(ls) : ls \in SeqsUpTo(YamlLines, MaxYamlLines) \ {<<>>}} \cup {<<>>}

\* For the second path: a mapping, a file yaml.load raises on, comments only
YamlDriverDocs ==
    { written_text(<< <<"a", ":", SP, "1">> >>),
      written_text(<< <<"a", ":", SP, "[">> >>),
      written_text(<< <<"#", SP, "c">> >>) }

YamlArgLists == SeqsUpTo(YPaths, MaxArgs)

YamlInputs ==
    {[paths |-> a,
      files |-> [f \in YPaths |-> IF f = "a.yml" THEN d ELSE w]] :
        a \in YamlArgLists, d \in YamlDocs, w \in YamlDriverDocs}

\* ------------------------------------------------------------------------
\* compress_comments on its own
\* ------------------------------------------------------------------------

\* Lines of a file compress_comments is called on
MaxCompressLines == 4
\* Calls of compress_comments on the same file
MaxCompress == 2

CompressLines ==
    { <<>>,
      <<SP>>,
      <<"#", SP, "c">>,
      <<SP, SP, "#", SP, "d", SP>>,
      <<"a", ":", SP, "1">>,
      <<SP, SP, "b", ":", SP, "1", SP>> }

\* With and without a final newline; format_file does not call
\* compress_comments on the empty file
CompressDocs ==
    LET LL == SeqsUpTo(CompressLines, MaxCompressLines) IN
    ({join(<<NL>>, ls) : ls \in LL} \cup {written_text(ls) : ls \in LL}) \ {<<>>}

\* ------------------------------------------------------------------------
\* The scanner on its own: one line, split once
\* ------------------------------------------------------------------------

\* Characters of a scanned line
MaxLineLen == 6

LineChars == {Q, BS, "/", SP, "a"}

ScanLines == SeqsUpTo(LineChars, MaxLineLen)

NoResult == [content |-> <<>>, comment |-> None]

VARIABLES
    files,          \* the text each path holds
    argv,           \* the command line
    pc,             \* "loop": in the for loop of main; "done": main returned
    i,              \* paths of argv the loop has finished with
    failed_files,   \* main's list
    status,         \* main's return value, -1 before it returns
    runs,           \* runs of the script started so far
    formatted,      \* paths a call of format_jsonc_file has returned for
    calls,          \* the calls of format_jsonc_file so far, each with the run
                    \* it belongs to, its path, the text it read, whether it
                    \* raised, whether it called the parser, and whether the
                    \* path was in `formatted` already
    line,           \* the line given to split_content_and_comment
    split_done,     \* whether it has returned
    result,         \* what it returned
    yfiles,         \* the text each YAML path holds
    paths,          \* the command line of format_yaml.py
    ypc,            \* "loop": in its for loop; "done": it ended; "aborted":
                    \* an exception ended it
    ycalls,         \* the calls of format_file so far: path, the text it
                    \* read, whether it raised, whether it called yaml.dump
    cfile,          \* the text of the file compress_comments is called on
    clog            \* the texts its calls so far have read

jvars == <<files, argv, pc, i, failed_files, status, runs, formatted, calls>>
svars == <<line, split_done, result>>
yvars == <<yfiles, paths, ypc, ycalls>>
cvars == <<cfile, clog>>
vars == <<jvars, svars, yvars, cvars>>

JInit(inputs) ==
    /\ \E inp \in inputs : argv = inp.argv /\ files = inp.files
    /\ pc = "loop"
    /\ i = 0
    /\ failed_files = <<>>
    /\ status = -1
    /\ runs = 1
    /\ formatted = {}
    /\ calls = <<>>

\* No command line at all: the state of main while another part is studied
JIdle ==
    /\ argv = <<>>
    /\ files = [f \in Paths |-> <<>>]
    /\ pc = "done"
    /\ i = 0
    /\ failed_files = <<>>
    /\ status = 0
    /\ runs = MaxRuns
    /\ formatted = {}
    /\ calls = <<>>

SIdle == line = <<>> /\ split_done = TRUE /\ result = NoResult

CIdle == cfile = <<>> /\ clog = <<>>

YIdle ==
    /\ paths = <<>>
    /\ yfiles = [f \in YPaths |-> <<>>]
    /\ ypc = "done"
    /\ ycalls = <<>>

\* The mutated loop body: the first failure ends the loop.
MainIter_stops_at_failure ==
    /\ pc = "loop"
    /\ i < Len(argv)
    /\ LET p == argv[i + 1]
           r == format_jsonc_file(files[p])
       IN /\ files' = [files EXCEPT ![p] = r.text]
          /\ failed_files' = IF r.raised THEN Append(failed_files, p) ELSE failed_files
          /\ formatted' = IF r.raised THEN formatted ELSE formatted \cup {p}
          /\ calls' = Append(calls, [run |-> runs, path |-> p, input |-> files[p],
                                     raised |-> r.raised, parsed |-> r.parsed,
                                     again |-> p \in formatted])
          /\ i' = IF r.raised THEN Len(argv) ELSE i + 1
    /\ UNCHANGED <<argv, pc, status, runs, svars, yvars, cvars>>

\* One iteration of the for loop of main: format_jsonc_file(path) in the
\* try block, the path appended to failed_files if it raised
MainIter ==
    /\ pc = "loop"
    /\ i < Len(argv)
    /\ LET p == argv[i + 1]
           r == format_jsonc_file(files[p])
       IN /\ files' = [files EXCEPT ![p] = r.text]
          /\ failed_files' = IF r.raised THEN Append(failed_files, p) ELSE failed_files
          /\ formatted' = IF r.raised THEN formatted ELSE formatted \cup {p}
          /\ calls' = Append(calls, [run |-> runs, path |-> p, input |-> files[p],
                                     raised |-> r.raised, parsed |-> r.parsed,
                                     again |-> p \in formatted])
          /\ i' = i + 1
    /\ UNCHANGED <<argv, pc, status, runs, svars, yvars, cvars>>

\* After the loop: return 1 if failed_files else 0
MainReturn ==
    /\ pc = "loop"
    /\ i = Len(argv)
    /\ status' = IF failed_files # <<>> THEN 1 ELSE 0
    /\ pc' = "done"
    /\ UNCHANGED <<files, argv, i, failed_files, runs, formatted, calls, svars, yvars, cvars>>

\* The script is run again on the same command line
RunAgain ==
    /\ pc = "done"
    /\ runs < MaxRuns
    /\ runs' = runs + 1
    /\ pc' = "loop"
    /\ i' = 0
    /\ failed_files' = <<>>
    /\ status' = -1
    /\ UNCHANGED <<files, argv, formatted, calls, svars, yvars, cvars>>

Init ==
    /\ JInit(OnePath(StructuredDocs(MaxKeys, MaxDecor) \cup PureDocs(MaxPureLines))
             \cup DriverInputs)
    /\ SIdle
    /\ YIdle
    /\ CIdle

Next == MainIter \/ MainReturn \/ RunAgain

Spec == Init /\ [][Next]_vars

\* main on the small files only: a command line of several paths over
\* DriverDocs, or one path that names a file of comments and blank lines
InitDriver ==
    /\ JInit(OnePath(PureDocs(MaxPureLines)) \cup DriverInputs)
    /\ SIdle
    /\ YIdle
    /\ CIdle

SpecDriver == InitDriver /\ [][Next]_vars

\* split_content_and_comment(line) is called and returns
Split ==
    /\ ~split_done
    /\ result' = split_content_and_comment(line)
    /\ split_done' = TRUE
    /\ UNCHANGED <<line, jvars, yvars, cvars>>

InitSplit ==
    /\ JIdle
    /\ YIdle
    /\ CIdle
    /\ line \in ScanLines
    /\ split_done = FALSE
    /\ result = NoResult

NextSplit == Split

SpecSplit == InitSplit /\ [][NextSplit]_vars

\* One iteration of the for loop of format_yaml.py: format_file(Path(p)),
\* whose exception nothing catches
YamlIter ==
    /\ ypc = "loop"
    /\ Len(ycalls) < Len(paths)
    /\ LET p == paths[Len(ycalls) + 1]
           r == format_file(p, yfiles[p])
       IN /\ yfiles' = [yfiles EXCEPT ![p] = r.text]
          /\ ycalls' = Append(ycalls, [path |-> p, input |-> yfiles[p],
                                       raised |-> r.raised, dumped |-> r.dumped])
          /\ ypc' = IF r.raised THEN "aborted" ELSE "loop"
    /\ UNCHANGED <<paths, jvars, svars, cvars>>

\* The loop is over and the script ends
YamlExit ==
    /\ ypc = "loop"
    /\ Len(ycalls) = Len(paths)
    /\ ypc' = "done"
    /\ UNCHANGED <<yfiles, paths, ycalls, jvars, svars, cvars>>

InitYaml ==
    /\ JIdle
    /\ SIdle
    /\ CIdle
    /\ \E inp \in YamlInputs : paths = inp.paths /\ yfiles = inp.files
    /\ ypc = "loop"
    /\ ycalls = <<>>

NextYaml == YamlIter \/ YamlExit

SpecYaml == InitYaml /\ [][NextYaml]_vars

\* compress_comments(file_path) is called and returns
Compress ==
    /\ Len(clog) < MaxCompress
    /\ cfile' = compress_comments(cfile)
    /\ clog' = Append(clog, cfile)
    /\ UNCHANGED <<jvars, svars, yvars>>

InitCompress ==
    /\ JIdle
    /\ SIdle
    /\ YIdle
    /\ cfile \in CompressDocs
    /\ clog = <<>>

NextCompress == Compress

SpecCompress == InitCompress /\ [][NextCompress]_vars
\* ------------------------------------------------------------------------
\* What the claims speak of
\* ------------------------------------------------------------------------

Last == calls[Len(calls)]

\* The text of the latest call's path after the call
LastOutput == files[Last.path]

\* The comment part of a line, trimmed (None if it has none)
CommentOf(l) == split_content_and_comment(l).comment

RECURSIVE BagOfComments(_)
BagOfComments(ls) ==
    IF ls = <<>> THEN EmptyBag
    ELSE (IF CommentOf(Head(ls)) # None THEN SetToBag({CommentOf(Head(ls))}) ELSE EmptyBag)
         (+) BagOfComments(Tail(ls))

\* The multiset of the comment texts of a file
CommentsOf(text) == BagOfComments(splitlines(text))

\* The indices of the lines that introduce a key, in order
KeyLines(ls) ==
    LET isKey(j) == KEY_RE(split_content_and_comment(ls[j]).content).matched
        RECURSIVE from(_)
        from(j) == IF j > Len(ls) THEN <<>>
                   ELSE (IF isKey(j) THEN <<j>> ELSE <<>>) \o from(j + 1)
    IN from(1)

IsCommentLine(l) ==
    split_content_and_comment(l).content = <<>> /\ CommentOf(l) # None

\* The comment lines immediately before line j, trimmed, in order
RECURSIVE LeadingBlock(_, _)
LeadingBlock(ls, j) ==
    IF j > 1 /\ IsCommentLine(ls[j - 1])
    THEN Append(LeadingBlock(ls, j - 1), strip(ls[j - 1]))
    ELSE <<>>

\* The file has a line that is neither blank nor a comment line
HasStructure(text) ==
    \E j \in 1..Len(splitlines(text)) :
        LET t == strip(splitlines(text)[j]) IN
        t # <<>> /\ ~(Len(t) >= 2 /\ t[1] = "/" /\ t[2] = "/")

\* The parser is given the file and rejects it
ParserRejects(text) == HasStructure(text) /\ ~loads(text).ok

\* ------------------------------------------------------------------------
\* C5
\* ------------------------------------------------------------------------

\* The character at j is taken by a backslash escape: an odd number of
\* backslashes stand immediately before it
RECURSIVE BackslashesBefore(_, _)
BackslashesBefore(l, j) ==
    IF j > 1 /\ l[j - 1] = BS THEN 1 + BackslashesBefore(l, j - 1) ELSE 0

EscapedAt(l, j) == BackslashesBefore(l, j) % 2 = 1

\* Position j lies inside a double-quoted string: an odd number of
\* unescaped quotes stand before it
InsideString(l, j) ==
    Cardinality({m \in 1..(j - 1) : l[m] = Q /\ ~EscapedAt(l, m)}) % 2 = 1

CommentStarts(l) ==
    {j \in 1..(Len(l) - 1) : l[j] = "/" /\ l[j + 1] = "/" /\ ~InsideString(l, j)}

FirstOf(S) == CHOOSE j \in S : \A m \in S : j <= m

\* C5: split_content_and_comment reports a comment exactly when "//" stands
\* at a position outside every double-quoted string (a quote toggling the
\* string state only if no unconsumed backslash escapes it); then content is
\* the text before the first such position, right-trimmed, and comment the
\* rest, trimmed; otherwise comment is None and content the right-trimmed line.
C5_StringLiteralSafety ==
    split_done =>
        IF CommentStarts(line) # {}
        THEN LET j == FirstOf(CommentStarts(line)) IN
             /\ result.comment # None
             /\ result.content = rstrip(SubSeq(line, 1, j - 1))
             /\ result.comment = strip(SubSeq(line, j, Len(line)))
        ELSE result.comment = None /\ result.content = rstrip(line)

\* A line with "//" inside a string and a comment after the string
C5_Witness ==
    /\ split_done
    /\ CommentStarts(line) # {}
    /\ result.comment # None
    /\ \E j \in 1..(FirstOf(CommentStarts(line)) - 1) :
          line[j] = "/" /\ line[j + 1] = "/" /\ InsideString(line, j)
\* ------------------------------------------------------------------------
\* C1 - C4, C6: what formatting does to the comments of a file
\* ------------------------------------------------------------------------

Called == calls # <<>>

InLines == splitlines(Last.input)
OutLines == splitlines(LastOutput)

\* C1: when format_jsonc_file returns without raising, the multiset of the
\* comment texts of the written file equals that of the file it read.
C1_CommentRoundTrip ==
    (Called /\ ~Last.raised) => CommentsOf(LastOutput) = CommentsOf(Last.input)

\* C2: format_jsonc_file on a file an earlier call of it has written leaves
\* the file byte for byte as it was.
C2_Idempotent ==
    (Called /\ Last.again /\ ~Last.raised) => LastOutput = Last.input

\* C3: the comment lines immediately before the k-th key line of the input
\* stand, in the same order, immediately before the k-th key line of the
\* output, each re-indented to that line's indentation.
C3_LeadingAssociation ==
    (Called /\ ~Last.raised) =>
        LET ki == KeyLines(InLines)
            ko == KeyLines(OutLines)
        IN /\ Len(ki) = Len(ko)
           /\ \A k \in 1..Len(ki) :
                LET B == LeadingBlock(InLines, ki[k])
                    n == Len(B)
                IN /\ ko[k] - n >= 1
                   /\ \A m \in 1..n :
                        OutLines[ko[k] - n + m - 1] = IndentOf(OutLines[ko[k]]) \o B[m]

\* C4: the k-th key line of the output ends with the trailing comment of the
\* k-th key line of the input, and carries no trailing comment otherwise.
C4_InlineAssociation ==
    (Called /\ ~Last.raised) =>
        LET ki == KeyLines(InLines)
            ko == KeyLines(OutLines)
        IN /\ Len(ki) = Len(ko)
           /\ \A k \in 1..Len(ki) :
                /\ CommentOf(OutLines[ko[k]]) = CommentOf(InLines[ki[k]])
                /\ CommentOf(InLines[ki[k]]) # None =>
                      endswith(OutLines[ko[k]], <<SP>> \o CommentOf(InLines[ki[k]]))

\* The first line of the file that is neither blank nor a comment line
FirstStructural(ls) ==
    CHOOSE j \in 1..Len(ls) :
        /\ split_content_and_comment(ls[j]).content # <<>>
        /\ \A m \in 1..(j - 1) : split_content_and_comment(ls[m]).content = <<>>

\* The file opens its root object on a line that carries a comment, and a
\* key follows
OpensWithComment(ls) ==
    /\ \E j \in 1..Len(ls) : split_content_and_comment(ls[j]).content # <<>>
    /\ split_content_and_comment(ls[FirstStructural(ls)]).content = <<"{">>
    /\ CommentOf(ls[FirstStructural(ls)]) # None
    /\ KeyLines(ls) # <<>>

\* C6: a comment trailing the line that opens the document ("{ // note") is
\* in the output above the first key, indented by two spaces, and a trailing
\* comment of the first key's line stays on that line, itself indented by
\* two spaces.
C6_OpeningLineComment ==
    (Called /\ ~Last.raised /\ OpensWithComment(InLines)) =>
        LET note == CommentOf(InLines[FirstStructural(InLines)])
            ki   == KeyLines(InLines)
            ko   == KeyLines(OutLines)
        IN /\ ko # <<>>
           /\ \E m \in 1..(ko[1] - 1) : OutLines[m] = <<SP, SP>> \o note
           /\ IndentOf(OutLines[ko[1]]) = <<SP, SP>>
           /\ CommentOf(OutLines[ko[1]]) = CommentOf(InLines[ki[1]])

\* ------------------------------------------------------------------------
\* C7, C8, C10: failures and the files without structure
\* ------------------------------------------------------------------------

\* The paths main has called format_jsonc_file on in this run, in order
RECURSIVE PathsOf(_, _)
PathsOf(cs, run) ==
    IF cs = <<>> THEN <<>>
    ELSE (IF Head(cs).run = run THEN <<Head(cs).path>> ELSE <<>>)
         \o PathsOf(Tail(cs), run)

\* ... and those among them whose file the parser was given and rejected
RECURSIVE RejectedOf(_, _)
RejectedOf(cs, run) ==
    IF cs = <<>> THEN <<>>
    ELSE (IF Head(cs).run = run /\ ParserRejects(Head(cs).input)
          THEN <<Head(cs).path>> ELSE <<>>)
         \o RejectedOf(Tail(cs), run)

\* C7: when the parser rejects the file, format_jsonc_file raises before it
\* writes: the file is as it was, and main appends the path to failed_files.
C7_MalformedLeftAlone ==
    (i >= 1 /\ ParserRejects(Last.input)) =>
        /\ Last.raised
        /\ Last.path = argv[i]
        /\ LastOutput = Last.input
        /\ failed_files # <<>>
        /\ failed_files[Len(failed_files)] = argv[i]

C7_Witness ==
    /\ i >= 1
    /\ ParserRejects(Last.input)
    /\ CommentsOf(Last.input) # EmptyBag
    /\ pc = "done"

\* C8: main calls format_jsonc_file on every path of argv in order, whatever
\* failed before; failed_files is the paths whose call raised, in order; main
\* returns 1 if there is one and 0 if not.
C8_Driver ==
    /\ PathsOf(calls, runs) = SubSeq(argv, 1, i)
    /\ failed_files = RejectedOf(calls, runs)
    /\ pc = "done" =>
          /\ i = Len(argv)
          /\ status = IF RejectedOf(calls, runs) # <<>> THEN 1 ELSE 0

\* A failure on the first path and none on the second
C8_Witness ==
    /\ pc = "done"
    /\ Len(argv) = 2
    /\ argv[1] # argv[2]
    /\ failed_files = <<argv[1]>>
    /\ status = 1
    /\ files[argv[2]] # calls[Len(calls)].input

\* Every line of the file that is not blank starts, trimmed, with "//"
PureComment(text) == ~HasStructure(text)

\* The lines of the file that are not blank, trimmed, each ended by a newline;
\* a single newline if there is none
TrimmedLines(text) ==
    LET ls   == splitlines(text)
        keep == SelectSeq(ls, LAMBDA l : \E j \in 1..Len(l) : ~IsSpace(l[j]))
        body == Concat([j \in 1..Len(keep) |-> strip(keep[j]) \o <<NL>>])
    IN IF keep = <<>> THEN <<NL>> ELSE body

\* C10: for a file of comment lines and blank lines only, or an empty file,
\* format_jsonc_file does not call the parser and writes the lines that are
\* not blank, trimmed, in their order, and a final newline.
C10_PureCommentFile ==
    (Called /\ PureComment(Last.input)) =>
        /\ ~Last.parsed
        /\ ~Last.raised
        /\ LastOutput = TrimmedLines(Last.input)

\* Two comment lines with white space around them and a blank line between
C10_Witness ==
    /\ Called
    /\ PureComment(Last.input)
    /\ Len(splitlines(Last.input)) = 3
    /\ Len(splitlines(LastOutput)) = 2
    /\ \E j \in 1..Len(InLines) : IsCommentLine(InLines[j]) /\ InLines[j] # strip(InLines[j])
\* ------------------------------------------------------------------------
\* C9
\* ------------------------------------------------------------------------

\* C9: a file's failure does not end the run of format_yaml.py: once the
\* script has ended, format_file has been called on every path of the
\* command line, those after a file whose call raised included.
C9_YamlFailureDoesNotAbort ==
    ypc # "loop" => Len(ycalls) = Len(paths)

\* ------------------------------------------------------------------------
\* C11, C12, C13: format_file
\* ------------------------------------------------------------------------

YCalled == ycalls # <<>>

YLast == ycalls[Len(ycalls)]

\* The text of the latest call's path after the call
YLastOutput == yfiles[YLast.path]

IsYamlComment(l) == startswith(strip(l), <<"#">>)

\* A file that is not empty and holds comment lines and blank lines only
YamlPureComment(text) ==
    /\ text # <<>>
    /\ \A j \in 1..Len(splitlines(text)) :
          LET l == splitlines(text)[j] IN strip(l) = <<>> \/ IsYamlComment(l)

\* C11: after format_file on a file that is not empty and holds comment
\* lines and blank lines only, every comment line of the input is a line of
\* the file, trimmed, and yaml.dump was not called.
C11_YamlPureCommentKept ==
    (YCalled /\ YamlPureComment(YLast.input)) =>
        /\ ~YLast.raised
        /\ ~YLast.dumped
        /\ \A j \in 1..Len(splitlines(YLast.input)) :
              LET l == splitlines(YLast.input)[j] IN
              IsYamlComment(l) =>
                  \E k \in 1..Len(splitlines(YLastOutput)) :
                      strip(splitlines(YLastOutput)[k]) = strip(l)

\* C12: format_file on a file whose parse yields a value that is not None
\* calls yaml.dump, which rewrites the file, before it returns.
C12_YamlCanonicalized ==
    (YCalled /\ yaml_load(YLast.input).ok /\ ~yaml_load(YLast.input).none) =>
        /\ ~YLast.raised
        /\ YLast.dumped

\* C13: when yaml.load raises inside format_file, the file holds what it
\* held before the call.
C13_YamlMalformedLeftAlone ==
    (YCalled /\ YLast.raised) => YLastOutput = YLast.input

\* ------------------------------------------------------------------------
\* C14
\* ------------------------------------------------------------------------

\* text.split("\n"): the pieces of a text between its newlines
RECURSIVE Pieces(_, _)
Pieces(text, cur) ==
    IF text = <<>> THEN <<cur>>
    ELSE IF Head(text) = NL THEN <<cur>> \o Pieces(Tail(text), <<>>)
    ELSE Pieces(Tail(text), Append(cur, Head(text)))

\* A text of lines none of which is blank, each ended by a newline, or the
\* newline alone when there is no line
NoBlankLine(text) ==
    /\ text # <<>>
    /\ text[Len(text)] = NL
    /\ LET body == SubSeq(text, 1, Len(text) - 1) IN
       body # <<>> => \A j \in 1..Len(Pieces(body, <<>>)) :
                          strip(Pieces(body, <<>>)[j]) # <<>>

\* C14 as stated: what a call of format_jsonc_file that returns has written
\* holds no blank line and no line of white space only, and ends with one
\* newline.
C14_NoBlankLines ==
    (Called /\ ~Last.raised) =>
        /\ NoBlankLine(LastOutput)
        /\ \A j \in 1..Len(splitlines(LastOutput)) :
              strip(splitlines(LastOutput)[j]) # <<>>

\* C14, amended: what a call of format_jsonc_file that returns has written
\* ends with one newline and holds no blank line and no line of white space
\* only before it; when the input has no line that is not blank, the text
\* written is that newline alone.
C14_NoBlankLinesButNewline ==
    (Called /\ ~Last.raised) =>
        /\ NoBlankLine(LastOutput)
        /\ (LastOutput = <<NL>>) = (\A j \in 1..Len(InLines) : strip(InLines[j]) = <<>>)

\* The reinjection path on a file with a blank line inside the object
C14_Witness ==
    /\ Called
    /\ ~Last.raised
    /\ Last.parsed
    /\ KeyLines(OutLines) # <<>>
    /\ \E j \in 2..Len(InLines) : strip(InLines[j]) = <<>>

\* ------------------------------------------------------------------------
\* C15
\* ------------------------------------------------------------------------

\* The latest call took the reinjection path
Reinjected == Called /\ ~Last.raised /\ Last.parsed /\ Truthy(loads(Last.input).val)

\* The lines the reinjection loop of the latest call walked
Walked ==
    LET canon == dumps(loads(Last.input).val) IN
    SubSeq(canon, 2, Len(canon) - 1)

\* C15: the paths extract_comments computes for the keys of the original
\* text are, key by key, the paths the reinjection loop computes for them in
\* the canonical text.
C15_PathAgreement ==
    Reinjected =>
        extract_paths(extract_start, read_lines(Last.input)) = reinject_paths(<<>>, Walked)

\* ------------------------------------------------------------------------
\* C16
\* ------------------------------------------------------------------------

NoRepeat(seq) == \A j, k \in 1..Len(seq) : seq[j] = seq[k] => j = k

\* C16: in a document none of whose objects repeats a key, no two keys are
\* given the same path, by the reinjection loop or by extract_comments.
C16_PathUnique ==
    Reinjected =>
        /\ NoRepeat(reinject_paths(<<>>, Walked))
        /\ NoRepeat(extract_paths(extract_start, read_lines(Last.input)))

\* ------------------------------------------------------------------------
\* C17
\* ------------------------------------------------------------------------

\* The comments of the lists d[k], k in ks, as a multiset
RECURSIVE BagOfLists(_, _)
BagOfLists(d, ks) ==
    IF ks = {} THEN EmptyBag
    ELSE LET k == CHOOSE x \in ks : TRUE IN
         BagOfComments(d[k]) (+) BagOfLists(d, ks \ {k})

\* The comments the four containers of a Comment Index hold, as a multiset
IndexComments(ci) ==
    BagOfComments(ci.top) (+) BagOfComments(ci.bottom)
    (+) BagOfLists(ci.leading, DOMAIN ci.leading)
    (+) BagOfLists([k \in DOMAIN ci.inline |-> <<ci.inline[k]>>], DOMAIN ci.inline)

\* C17: the comments in top, bottom, leading and inline after
\* extract_comments are the comments of the input, each once (stated for
\* the files the parser accepts, where the spec leaves no exception).
C17_IndexPartition ==
    (Called /\ ~Last.raised) =>
        IndexComments(extract_comments(read_lines(Last.input))) = CommentsOf(Last.input)

\* ------------------------------------------------------------------------
\* C18
\* ------------------------------------------------------------------------

\* A line that closes a container
IsClosing(l) ==
    LET t == strip(split_content_and_comment(l).content) IN
    startswith(t, <<"}">>) \/ startswith(t, <<"]">>)

InSeq(x, seq) == \E j \in 1..Len(seq) : seq[j] = x

\* The ordinals of the keys whose lines come after line j
KeysAfter(ls, j) == {n \in 1..Len(KeyLines(ls)) : KeyLines(ls)[n] > j}

\* C18: after extract_comments, the comment that trails a closing line is
\* among the leading comments of the next key, under the path that key has
\* when the canonical text is walked, or among the bottom comments when no
\* key follows.
C18_ClosingLineComment ==
    Reinjected =>
        LET ci == extract_comments(read_lines(Last.input))
            ps == reinject_paths(<<>>, Walked)
        IN \A j \in 1..Len(InLines) :
              (IsClosing(InLines[j]) /\ CommentOf(InLines[j]) # None) =>
                  LET after == KeysAfter(InLines, j) IN
                  IF after = {} THEN InSeq(CommentOf(InLines[j]), ci.bottom)
                  ELSE LET n  == CHOOSE x \in after : \A y \in after : x <= y
                           fp == ps[n]
                       IN /\ fp \in DOMAIN ci.leading
                          /\ InSeq(CommentOf(InLines[j]), ci.leading[fp])

\* ------------------------------------------------------------------------
\* C19
\* ------------------------------------------------------------------------

\* The keys of a parsed document in the order of its lines, each with the
\* chain of the keys of the objects around it: an array and the objects
\* that are its elements add nothing to the chain
RECURSIVE KeyChains(_, _)
KeyChains(val, chain) ==
    LET RECURSIVE members(_)
        members(its) ==
            IF its = <<>> THEN <<>>
            ELSE LET it == Head(its) IN
                 <<join(<<".">>, Append(chain, it.k))>>
                 \o KeyChains(it.v, IF it.v.t = "obj" THEN Append(chain, it.k) ELSE chain)
                 \o members(Tail(its))
        RECURSIVE elems(_)
        elems(its) ==
            IF its = <<>> THEN <<>>
            ELSE KeyChains(Head(its), chain) \o elems(Tail(its))
    IN CASE val.t = "obj" -> members(val.items)
         [] val.t = "arr" -> elems(val.items)
         [] OTHER -> <<>>

\* C19: at each key line of the canonical text the stack of the reinjection
\* loop is the chain of the keys of the objects around that key, so the path
\* it computes is that chain and the key.
C19_BalancedStack ==
    Reinjected =>
        reinject_paths(<<>>, Walked) = KeyChains(loads(Last.input).val, <<>>)

\* ------------------------------------------------------------------------
\* C20
\* ------------------------------------------------------------------------

Compressed == clog # <<>>

\* The lines the latest call of compress_comments read and wrote
CIn == splitlines(clog[Len(clog)])
COut == splitlines(cfile)

IsBlank(l) == strip(l) = <<>>

\* The lines that are neither blank nor comments, in order
RECURSIVE ContentLines(_)
ContentLines(ls) ==
    IF ls = <<>> THEN <<>>
    ELSE (IF IsBlank(Head(ls)) \/ IsYamlComment(Head(ls)) THEN <<>> ELSE <<Head(ls)>>)
         \o ContentLines(Tail(ls))

\* No two blank lines in a row, comment lines trimmed, the other lines
\* those of the input
CompressedShape ==
    /\ cfile # <<>> /\ cfile[Len(cfile)] = NL
    /\ \A j \in 1..(Len(COut) - 1) : ~(IsBlank(COut[j]) /\ IsBlank(COut[j + 1]))
    /\ \A j \in 1..Len(COut) : IsYamlComment(COut[j]) => COut[j] = strip(COut[j])
    /\ ContentLines(COut) = ContentLines(CIn)

\* C20 as stated: the file compress_comments writes has no two blank lines
\* in a row and no blank first line, its comment lines are trimmed, its
\* other lines are those of the input, and a second call changes nothing.
C20_Compress ==
    Compressed =>
        /\ CompressedShape
        /\ (COut # <<>> => ~IsBlank(COut[1]))
        /\ (Len(clog) >= 2 => cfile = clog[Len(clog)])

\* C20, amended: as stated, but the first line of the file is blank when
\* the input has no line that is not blank: the file is then one newline.
C20_CompressButNewline ==
    Compressed =>
        /\ CompressedShape
        /\ IF \A j \in 1..Len(CIn) : IsBlank(CIn[j])
           THEN cfile = <<NL>>
           ELSE ~IsBlank(COut[1])
        /\ (Len(clog) >= 2 => cfile = clog[Len(clog)])

\* Two calls on a file with two blank lines in a row between other lines
\* and a comment line with white space around it
C20_Witness ==
    /\ Len(clog) = 2
    /\ LET ls == splitlines(clog[1]) IN
       /\ \E j \in 2..(Len(ls) - 2) :
             ~IsBlank(ls[j - 1]) /\ IsBlank(ls[j]) /\ IsBlank(ls[j + 1])
       /\ \E j \in 1..Len(ls) : IsYamlComment(ls[j]) /\ ls[j] # strip(ls[j])
    /\ Len(COut) = 3
=============================================================================
